---- MODULE Spec2Model ----
(***************************************************************************)
(* Doubly-linked list of src/src/linked_list/linked_list.py.               *)
(*                                                                         *)
(* The heap is a function from node identities to Node records; a          *)
(* LinkedList object is the record of its four attributes plus the heap.   *)
(* Every method is an operator from the object's state to the state it     *)
(* leaves, the exception it raises (if any) and the value it returns;      *)
(* a state reached when an exception is raised mid-method keeps the        *)
(* assignments made before the raise.                                      *)
(***************************************************************************)
EXTENDS Integers, Sequences, FiniteSets

\* ---------------------------------------------------------------- bounds
MaxNodes == 3           \* nodes alive at any one time
MaxInit == 3            \* longest initial_data handed to the constructor
MaxIdx == 2             \* largest index argument
MaxDeficit == 1         \* remove_node is not called once length is this far below 0

Values == {"a", "b"}
NoData == "-"
Null == 0               \* None
NodeIds == 1..MaxNodes
IndexArgs == (-1)..MaxIdx
IndexSets == SUBSET (0..MaxIdx)
\* all_nodes overrides indexes, so with all_nodes the indexes are left out
Requests == {[indexes |-> x, all_nodes |-> FALSE] : x \in IndexSets}
                \cup {[indexes |-> {}, all_nodes |-> TRUE]}

\* ------------------------------------------------------------ exceptions
NoErr == "none"
ErrOutOfBounds == "LinkedListError: Index is out of bounds"
ErrInvalidNode == "LinkedListError: Invalid node was reached"
ErrNotFound == "LinkedListError: No node with given data was found"
ErrAttribute == "AttributeError"

VARIABLES nodes, nalloc, head, tail, current, length,
          pc, op, args, err, ret, output

vars == <<nodes, nalloc, head, tail, current, length,
          pc, op, args, err, ret, output>>

\* ------------------------------------------------------------------ Node
Node(d) == [data |-> d, prev_node |-> Null, next_node |-> Null]

FreeNode == [data |-> NoData, prev_node |-> Null, next_node |-> Null]

\* The object as a record: the state the methods act on.
St == [nodes |-> nodes, nalloc |-> nalloc, head |-> head, tail |-> tail,
       current |-> current, length |-> length]

EmptyList == [nodes |-> [n \in NodeIds |-> FreeNode], nalloc |-> 0,
              head |-> Null, tail |-> Null, current |-> Null, length |-> 0]

\* -------------------------------------------------------- method results
NoRet == [node |-> Null, data |-> NoData, list |-> <<>>]

Returns(s, r) == [s |-> s, err |-> NoErr, ret |-> r, hung |-> FALSE,
                  output |-> <<>>]

Raises(s, e) == [s |-> s, err |-> e, ret |-> NoRet, hung |-> FALSE,
                 output |-> <<>>]

Hangs(s) == [s |-> s, err |-> NoErr, ret |-> NoRet, hung |-> TRUE,
             output |-> <<>>]

RetNode(n) == [NoRet EXCEPT !.node = n]
RetData(d) == [NoRet EXCEPT !.data = d]
RetList(l) == [NoRet EXCEPT !.list = l]

at_head(s) == s.current = s.head

\* A slip in at_tail: the comparison is made with head.
at_tail_head(s) == s.current = s.head

at_tail(s) == s.current = s.tail

\* for _idx in range(index): current = current.next_node
\* ok is FALSE when the attribute access on None raised AttributeError.
RECURSIVE WalkNext(_, _, _)
WalkNext(ns, cur, k) ==
    IF k <= 0 THEN [ok |-> TRUE, cur |-> cur]
    ELSE IF cur = Null THEN [ok |-> FALSE, cur |-> Null]
    ELSE WalkNext(ns, ns[cur].next_node, k - 1)

\* A slip in set_current_index: current is moved to head before the index
\* is checked.
set_current_index_late(s, index) ==
    IF index # 0 /\ index > s.length - 1
    THEN Raises([s EXCEPT !.current = s.head], ErrOutOfBounds)
    ELSE LET w == WalkNext(s.nodes, s.head, index) IN
         IF w.ok
         THEN Returns([s EXCEPT !.current = w.cur], NoRet)
         ELSE Raises([s EXCEPT !.current = w.cur], ErrInvalidNode)

set_current_index(s, index) ==
    IF index # 0 /\ index > s.length - 1
    THEN Raises(s, ErrOutOfBounds)
    ELSE LET w == WalkNext(s.nodes, s.head, index) IN
         IF w.ok
         THEN Returns([s EXCEPT !.current = w.cur], NoRet)
         ELSE Raises([s EXCEPT !.current = w.cur], ErrInvalidNode)

insert_node(s, d, after, index) ==
    LET p == set_current_index(s, index)
        t == p.s
        cur == t.current
        new == t.nalloc + 1
        done(ns, h, tl) ==
            Returns([nodes |-> ns, nalloc |-> new, head |-> h, tail |-> tl,
                     current |-> new, length |-> t.length + 1], RetNode(new))
    IN
    IF p.err # NoErr THEN p
    ELSE IF t.length = 0
    THEN done([t.nodes EXCEPT ![new] = Node(d)], new, new)
    ELSE IF cur = Null THEN Raises(t, ErrAttribute)
    ELSE IF after
    THEN LET nxt == t.nodes[cur].next_node
             nn == [data |-> d, prev_node |-> cur, next_node |-> nxt]
         IN
         IF at_tail(t)
         THEN done([t.nodes EXCEPT ![new] = nn, ![cur].next_node = new],
                   t.head, new)
         ELSE IF nxt = Null THEN Raises(t, ErrAttribute)
         ELSE done([t.nodes EXCEPT ![new] = nn, ![nxt].prev_node = new,
                                   ![cur].next_node = new],
                   t.head, t.tail)
    ELSE LET prv == t.nodes[cur].prev_node
             nn == [data |-> d, prev_node |-> prv, next_node |-> cur]
         IN
         IF at_head(t)
         THEN done([t.nodes EXCEPT ![new] = nn, ![cur].prev_node = new],
                   new, t.tail)
         ELSE IF prv = Null THEN Raises(t, ErrAttribute)
         ELSE done([t.nodes EXCEPT ![new] = nn, ![prv].next_node = new,
                                   ![cur].prev_node = new],
                   t.head, t.tail)

\* LinkedList.__init__: insert_node(data) for the first value, then
\* insert_node(data, after=True, index=index-1) for each later one.
RECURSIVE Populate(_, _, _)
Populate(s, initial_data, index) ==
    IF index >= Len(initial_data) THEN s
    ELSE Populate(
            IF index = 0
            THEN insert_node(s, initial_data[1], FALSE, 0).s
            ELSE insert_node(s, initial_data[index + 1], TRUE, index - 1).s,
            initial_data, index + 1)

LinkedList(initial_data) == Populate(EmptyList, initial_data, 0)

\* A slip in modify_node: the write goes to the head, not to the node the
\* index names.
modify_node_head(s, new_data, index) ==
    LET p == set_current_index(s, index)
        t == p.s
    IN
    IF p.err # NoErr THEN p
    ELSE IF t.current = Null THEN Raises(t, ErrAttribute)
    ELSE Returns([t EXCEPT !.nodes[t.head].data = new_data],
                 RetNode(t.current))

modify_node(s, new_data, index) ==
    LET p == set_current_index(s, index)
        t == p.s
    IN
    IF p.err # NoErr THEN p
    ELSE IF t.current = Null THEN Raises(t, ErrAttribute)
    ELSE Returns([t EXCEPT !.nodes[t.current].data = new_data],
                 RetNode(t.current))

\* if self.current.prev_node is not None: ...
\* if self.current.next_node is not None: ...
Unlink(ns, cur) ==
    LET n1 == IF ns[cur].prev_node # Null
              THEN [ns EXCEPT ![ns[cur].prev_node].next_node =
                                  ns[cur].next_node]
              ELSE ns
    IN IF n1[cur].next_node # Null
       THEN [n1 EXCEPT ![n1[cur].next_node].prev_node = n1[cur].prev_node]
       ELSE n1

\* A slip in remove_node: current is left on the node that was removed.
remove_node_stay(s, index) ==
    LET p == set_current_index(s, index)
        t == p.s
        cur == t.current
    IN
    IF p.err # NoErr THEN p
    ELSE IF cur = Null THEN Raises(t, ErrAttribute)
    ELSE Returns([t EXCEPT !.nodes = Unlink(t.nodes, cur),
                           !.length = t.length - 1],
                 RetData(t.nodes[cur].data))

remove_node(s, index) ==
    LET p == set_current_index(s, index)
        t == p.s
        cur == t.current
    IN
    IF p.err # NoErr THEN p
    ELSE IF cur = Null THEN Raises(t, ErrAttribute)
    ELSE Returns([t EXCEPT !.nodes = Unlink(t.nodes, cur),
                           !.current = Unlink(t.nodes, cur)[cur].next_node,
                           !.length = t.length - 1],
                 RetData(t.nodes[cur].data))

previous_node(s) ==
    IF s.current = Null THEN Raises(s, ErrAttribute)
    ELSE LET t == IF s.nodes[s.current].prev_node # Null
                  THEN [s EXCEPT !.current = s.nodes[s.current].prev_node]
                  ELSE s
         IN Returns(t, RetNode(t.current))

\* A slip in next_node: at the end of the list the walk starts over at head.
next_node_wrap(s) ==
    IF s.current = Null THEN Raises(s, ErrAttribute)
    ELSE LET t == IF s.nodes[s.current].next_node # Null
                  THEN [s EXCEPT !.current = s.nodes[s.current].next_node]
                  ELSE [s EXCEPT !.current = s.head]
         IN Returns(t, RetNode(t.current))

next_node(s) ==
    IF s.current = Null THEN Raises(s, ErrAttribute)
    ELSE LET t == IF s.nodes[s.current].next_node # Null
                  THEN [s EXCEPT !.current = s.nodes[s.current].next_node]
                  ELSE s
         IN Returns(t, RetNode(t.current))

find_node_by_index(s, index) ==
    LET w == WalkNext(s.nodes, s.head, index) IN
    IF w.ok
    THEN Returns([s EXCEPT !.current = w.cur], RetNode(w.cur))
    ELSE Raises([s EXCEPT !.current = w.cur], ErrOutOfBounds)

\* while self.current is not None: ... else: raise
\* seen: the nodes already passed; meeting one again means the chain is a
\* cycle none of whose nodes holds the data, and the loop never ends.
RECURSIVE FindLoop(_, _, _, _)
FindLoop(ns, cur, d, seen) ==
    IF cur = Null THEN [hung |-> FALSE, cur |-> Null]
    ELSE IF ns[cur].data = d THEN [hung |-> FALSE, cur |-> cur]
    ELSE IF cur \in seen THEN [hung |-> TRUE, cur |-> cur]
    ELSE FindLoop(ns, ns[cur].next_node, d, seen \cup {cur})

find_node_by_data(s, d) ==
    LET f == FindLoop(s.nodes, s.head, d, {})
        t == [s EXCEPT !.current = f.cur]
    IN
    IF f.hung THEN Hangs(t)
    ELSE IF f.cur = Null THEN Raises(t, ErrNotFound)
    ELSE Returns(t, RetNode(f.cur))

\* The while loop of gather_node_data.  The walk position moves only when
\* the counter is a requested index; the counter moves on every pass.
\* The loop never ends when the walk is at a node and no later pass can
\* move it: no requested index is left at or above the counter, or (with
\* all_nodes) the chain has led back to a node already gathered.
RECURSIVE GatherLoop(_, _, _, _, _, _, _)
GatherLoop(ns, cur, index, list_data, indexes, all_nodes, seen) ==
    IF cur = Null
    THEN [hung |-> FALSE, cur |-> cur, list |-> list_data]
    ELSE IF all_nodes \/ index \in indexes
    THEN IF all_nodes /\ cur \in seen
         THEN [hung |-> TRUE, cur |-> cur, list |-> list_data]
         ELSE GatherLoop(ns, ns[cur].next_node, index + 1,
                         Append(list_data, <<index, ns[cur].data>>),
                         indexes, all_nodes, seen \cup {cur})
    ELSE IF \E j \in indexes : j > index
    THEN GatherLoop(ns, cur, index + 1, list_data, indexes, all_nodes, seen)
    ELSE [hung |-> TRUE, cur |-> cur, list |-> list_data]

gather_node_data(s, indexes, all_nodes) ==
    LET g == GatherLoop(s.nodes, s.head, 0, <<>>, indexes, all_nodes, {})
        t == [s EXCEPT !.current = g.cur]
    IN
    IF g.hung THEN Hangs(t) ELSE Returns(t, RetList(g.list))

\* for index, data in gather_node_data(...):
\*     print(f'Node {index}: {self.current.data}')
\* A printed line is the pair <<index, value>>.
display_nodes(s, indexes, all_nodes) ==
    LET g == gather_node_data(s, indexes, all_nodes)
        t == g.s
        l == g.ret.list
    IN
    IF g.hung THEN g
    ELSE IF l = <<>> THEN Returns(t, NoRet)
    ELSE IF t.current = Null THEN Raises(t, ErrAttribute)
    ELSE [Returns(t, NoRet) EXCEPT
            !.output = [i \in 1..Len(l) |->
                           <<l[i][1], t.nodes[t.current].data>>]]

\* ------------------------------------------------------ node identities
\* A Node that nothing refers to any more is reclaimed, and the identity of
\* a Node is only ever compared (is, is not None), never ordered or printed.
\* Between calls the heap is therefore kept in one representative form: the
\* nodes still reachable from head, tail or current are numbered in the
\* order of the walk from head along next_node, then of the walk from tail
\* along prev_node, then the others; every other slot is free.
Linked(ns, S) ==
    ({ns[n].next_node : n \in S} \cup {ns[n].prev_node : n \in S}) \ {Null}

RECURSIVE Closure(_, _)
Closure(ns, S) ==
    IF Linked(ns, S) \subseteq S THEN S
    ELSE Closure(ns, S \cup Linked(ns, S))

Live(s) == Closure(s.nodes, {s.head, s.tail, s.current} \ {Null})

InSeq(q, n) == \E i \in 1..Len(q) : q[i] = n

RECURSIVE ChainNext(_, _, _)
ChainNext(ns, n, acc) ==
    IF n = Null \/ InSeq(acc, n) THEN acc
    ELSE ChainNext(ns, ns[n].next_node, Append(acc, n))

RECURSIVE ChainPrev(_, _, _)
ChainPrev(ns, n, acc) ==
    IF n = Null \/ InSeq(acc, n) THEN acc
    ELSE ChainPrev(ns, ns[n].prev_node, Append(acc, n))

RECURSIVE SetToSeq(_, _)
SetToSeq(S, acc) ==
    IF S = {} THEN acc
    ELSE LET m == CHOOSE x \in S : \A y \in S : x <= y
         IN SetToSeq(S \ {m}, Append(acc, m))

Chains(s) == ChainPrev(s.nodes, s.tail, ChainNext(s.nodes, s.head, <<>>))

Order(s, c) == SetToSeq(Live(s) \ {c[i] : i \in 1..Len(c)}, c)

Renamed(ord, n) ==
    IF n = Null THEN Null ELSE CHOOSE i \in 1..Len(ord) : ord[i] = n

Canon(s, ord) ==
    [nodes |-> [i \in NodeIds |->
                  IF i <= Len(ord)
                  THEN [data |-> s.nodes[ord[i]].data,
                        prev_node |-> Renamed(ord, s.nodes[ord[i]].prev_node),
                        next_node |-> Renamed(ord, s.nodes[ord[i]].next_node)]
                  ELSE FreeNode],
     nalloc |-> Len(ord),
     head |-> Renamed(ord, s.head),
     tail |-> Renamed(ord, s.tail),
     current |-> Renamed(ord, s.current),
     length |-> s.length]

\* ------------------------------------------------------------ the calls
NoArgs == [data |-> NoData, after |-> FALSE, index |-> 0, indexes |-> {},
           all_nodes |-> FALSE, initial_data |-> <<>>]

Store(s) ==
    /\ nodes' = s.nodes
    /\ nalloc' = s.nalloc
    /\ head' = s.head
    /\ tail' = s.tail
    /\ current' = s.current
    /\ length' = s.length

Record(r, name, a, node) ==
    /\ pc' = IF r.hung THEN "hung" ELSE "idle"
    /\ op' = name
    /\ args' = a
    /\ err' = r.err
    /\ ret' = [r.ret EXCEPT !.node = node]
    /\ output' = r.output

\* A call that links or unlinks no node leaves the heap as it is.
Commit(r, name, a) ==
    /\ Store(r.s)
    /\ Record(r, name, a, r.ret.node)

\* A call of insert_node or remove_node: the heap is renumbered after it.
CommitRelinked(r, name, a) ==
    \E ch \in {Chains(r.s)} : \E ord \in {Order(r.s, ch)} :
       /\ \E c \in {Canon(r.s, ord)} : Store(c)
       /\ Record(r, name, a, Renamed(ord, r.ret.node))

InitialData == UNION {[1..n -> Values] : n \in 0..MaxInit}

Init ==
    \E initial_data \in InitialData :
        LET s == LinkedList(initial_data) IN
        /\ nodes = s.nodes
        /\ nalloc = s.nalloc
        /\ head = s.head
        /\ tail = s.tail
        /\ current = s.current
        /\ length = s.length
        /\ pc = "idle"
        /\ op = "__init__"
        /\ args = [NoArgs EXCEPT !.initial_data = initial_data]
        /\ err = NoErr
        /\ ret = NoRet
        /\ output = <<>>

SetCurrentIndex ==
    /\ pc = "idle"
    /\ \E index \in IndexArgs :
          \E r \in {set_current_index(St, index)} : Commit(r, "set_current_index",
                 [NoArgs EXCEPT !.index = index])

InsertNode ==
    /\ pc = "idle"
    /\ nalloc < MaxNodes
    /\ \E d \in Values, after \in BOOLEAN, index \in IndexArgs :
          \E r \in {insert_node(St, d, after, index)} : CommitRelinked(r, "insert_node",
                 [NoArgs EXCEPT !.data = d, !.after = after,
                                !.index = index])

ModifyNode ==
    /\ pc = "idle"
    /\ \E d \in Values, index \in IndexArgs :
          \E r \in {modify_node(St, d, index)} : Commit(r, "modify_node",
                 [NoArgs EXCEPT !.data = d, !.index = index])

RemoveNode ==
    /\ pc = "idle"
    /\ length > -MaxDeficit
    /\ \E index \in IndexArgs :
          \E r \in {remove_node(St, index)} : CommitRelinked(r, "remove_node",
                 [NoArgs EXCEPT !.index = index])

PreviousNode ==
    /\ pc = "idle"
    /\ \E r \in {previous_node(St)} : Commit(r, "previous_node", NoArgs)

NextNode ==
    /\ pc = "idle"
    /\ \E r \in {next_node(St)} : Commit(r, "next_node", NoArgs)

FindNodeByIndex ==
    /\ pc = "idle"
    /\ \E index \in 0..MaxIdx :
          \E r \in {find_node_by_index(St, index)} : Commit(r, "find_node_by_index",
                 [NoArgs EXCEPT !.index = index])

FindNodeByData ==
    /\ pc = "idle"
    /\ \E d \in Values :
          \E r \in {find_node_by_data(St, d)} : Commit(r, "find_node_by_data",
                 [NoArgs EXCEPT !.data = d])

GatherNodeData ==
    /\ pc = "idle"
    /\ \E q \in Requests :
          \E r \in {gather_node_data(St, q.indexes, q.all_nodes)} :
             Commit(r, "gather_node_data",
                    [NoArgs EXCEPT !.indexes = q.indexes,
                                   !.all_nodes = q.all_nodes])

DisplayNodes ==
    /\ pc = "idle"
    /\ \E q \in Requests :
          \E r \in {display_nodes(St, q.indexes, q.all_nodes)} :
             Commit(r, "display_nodes",
                    [NoArgs EXCEPT !.indexes = q.indexes,
                                   !.all_nodes = q.all_nodes])

Next ==
    \/ SetCurrentIndex
    \/ InsertNode
    \/ ModifyNode
    \/ RemoveNode
    \/ PreviousNode
    \/ NextNode
    \/ FindNodeByData
    \/ FindNodeByIndex
    \/ GatherNodeData
    \/ DisplayNodes

Spec == Init /\ [][Next]_vars

TypeOK ==
    /\ nalloc \in 0..MaxNodes
    /\ head \in 0..MaxNodes
    /\ tail \in 0..MaxNodes
    /\ current \in 0..MaxNodes
    /\ length \in (-MaxDeficit)..MaxNodes
    /\ pc \in {"idle", "hung"}

\* ------------------------------------------------- vocabulary of the claims
\* The object after the step.
StNext == [nodes |-> nodes', nalloc |-> nalloc', head |-> head',
           tail |-> tail', current |-> current', length |-> length']

\* The node and the payload at a position, by the walk from head.
NodeAt(s, i) == WalkNext(s.nodes, s.head, i).cur

ValueAt(s, i) == IF NodeAt(s, i) = Null THEN NoData
                 ELSE s.nodes[NodeAt(s, i)].data

\* The positions 0..length-1 whose payload is v.
Positions(s, v) == {i \in 0..(s.length - 1) : ValueAt(s, i) = v}

Least(S) == CHOOSE x \in S : \A y \in S : x <= y

HeadChain == ChainNext(nodes, head, <<>>)

TailChain == ChainPrev(nodes, tail, <<>>)

\* The pairs gather_node_data is to return for a set of requested indexes.
Requested(s, indexes) ==
    LET q == SetToSeq({i \in indexes : 0 <= i /\ i < s.length}, <<>>)
    IN [k \in 1..Len(q) |-> <<q[k], ValueAt(s, q[k])>>]

\* ------------------------------------------------------------------ C1
\* C1: a list constructed from v0..v(n-1), n >= 1, has length n, head data
\* v0, tail data v(n-1), current on the last inserted node, and
\* gather_node_data(all_nodes=True) = [(0,v0),...,(n-1,v(n-1))]; constructed
\* from no data it has head, tail and current null and length 0.
C1_Constructor ==
    op = "__init__" =>
        LET v == args.initial_data
            n == Len(v)
            g == gather_node_data(St, {}, TRUE)
        IN
        IF n = 0
        THEN head = Null /\ tail = Null /\ current = Null /\ length = 0
        ELSE /\ length = n
             /\ head # Null /\ nodes[head].data = v[1]
             /\ tail # Null /\ nodes[tail].data = v[n]
             /\ current = tail
             /\ ~g.hung /\ g.err = NoErr
             /\ g.ret.list = [i \in 1..n |-> <<i - 1, v[i]>>]

C1_Witness ==
    /\ op = "__init__"
    /\ Len(args.initial_data) = 3
    /\ length = 3
    /\ nodes[head].data # nodes[tail].data

\* ------------------------------------------------------------------ C2
\* C2: in every reachable state with length >= 1, the walk from head along
\* next_node reaches tail in exactly length-1 steps, and the walk from tail
\* along prev_node reaches head in exactly length-1 steps.
C2_ChainConsistent ==
    length >= 1 =>
        /\ Len(HeadChain) >= length /\ HeadChain[length] = tail
        /\ Len(TailChain) >= length /\ TailChain[length] = head

\* ------------------------------------------------------------------ C3
\* C3: in every reachable state, length = 0 iff head is null iff tail is
\* null.
C3_EmptyIffNull ==
    /\ (length = 0) <=> (head = Null)
    /\ (length = 0) <=> (tail = Null)

\* ------------------------------------------------------------------ C4
\* C4: remove_node(i) with 0 <= i < length returns the value that was at
\* index i and decrements length by 1, and afterwards, if i is still in
\* range, find_node_by_index(i) returns the node whose value was at i+1.
C4_Remove ==
    [][(op' = "remove_node" /\ args'.index >= 0 /\ args'.index < length) =>
          LET i == args'.index
              f == find_node_by_index(StNext, i)
          IN
          /\ err' = NoErr
          /\ ret'.data = ValueAt(St, i)
          /\ length' = length - 1
          /\ i < length' =>
                /\ f.err = NoErr
                /\ f.ret.node # Null
                /\ nodes'[f.ret.node].data = ValueAt(St, i + 1)]_vars

\* ------------------------------------------------------------------ C5
\* C5: insert_node(v, after, i) with 0 <= i < length puts v at index i+1
\* (after=True) or at index i (after=False) as find_node_by_index sees it,
\* leaves current on the new node and grows length by exactly 1.
C5_Insert ==
    [][(op' = "insert_node" /\ args'.index >= 0 /\ args'.index < length) =>
          LET i == args'.index
              f == find_node_by_index(StNext,
                                      IF args'.after THEN i + 1 ELSE i)
          IN
          /\ err' = NoErr
          /\ length' = length + 1
          /\ current' # Null /\ current' = ret'.node
          /\ nodes'[current'].data = args'.data
          /\ f.err = NoErr
          /\ f.ret.node # Null
          /\ nodes'[f.ret.node].data = args'.data]_vars

\* ------------------------------------------------------------------ C6
\* C6: with all_nodes=False, gather_node_data returns exactly the pairs
\* (i, value at position i) for the requested i with 0 <= i < length, in
\* ascending order of i; requested indexes not in the list are ignored.
C6_Gather ==
    (op = "gather_node_data" /\ ~args.all_nodes) =>
        /\ pc = "idle"
        /\ err = NoErr
        /\ ret.list = Requested(St, args.indexes)

\* ------------------------------------------------------------------ C7
\* C7: on a non-empty list, set_current_index(index) and
\* find_node_by_index(index) with index >= length both fail with the
\* index-out-of-bounds LinkedListError.
C7_OutOfRange ==
    (/\ op \in {"set_current_index", "find_node_by_index"}
     /\ length >= 1
     /\ args.index >= length) => err = ErrOutOfBounds

\* ------------------------------------------------------------------ C8
\* C8: find_node_by_data(v) fails with the not-found LinkedListError when v
\* is the value of no element of the list, in particular when its only
\* occurrence has just been removed; when v occurs at several positions it
\* returns the node at the lowest of them.
C8_FindByData ==
    /\ [](op = "find_node_by_data" =>
            /\ pc = "idle"
            /\ IF Positions(St, args.data) = {}
               THEN err = ErrNotFound
               ELSE /\ err = NoErr
                    /\ ret.node = NodeAt(St, Least(Positions(St, args.data))))
    /\ [][(/\ op' = "remove_node"
           /\ err' = NoErr
           /\ Positions(St, ret'.data) = {args'.index}) =>
             find_node_by_data(StNext, ret'.data).err = ErrNotFound]_vars

\* ------------------------------------------------------------------ C9
\* C9 as claimed: current is null only when length = 0, and otherwise is a
\* node reachable from head.
C9_CursorNullOnlyWhenEmpty ==
    /\ current = Null => length = 0
    /\ current # Null => InSeq(HeadChain, current)

\* C9 as amended: current is either null or a node reachable from head
\* along next_node; it can be null while length > 0.
C9_CursorNullOrReachable ==
    current = Null \/ InSeq(HeadChain, current)

C9_Witness ==
    /\ op = "remove_node"
    /\ err = NoErr
    /\ length >= 2
    /\ current # Null
    /\ current # head

\* ------------------------------------------------------------------ C10
\* C10: modify_node(v, i) with 0 <= i < length sets the payload at index i
\* to v, leaves every other payload, every prev/next link, length, head and
\* tail as they were, and returns the node at index i.
C10_Modify ==
    [][(op' = "modify_node" /\ args'.index >= 0 /\ args'.index < length) =>
          LET i == args'.index
              n == NodeAt(St, i)
          IN
          /\ err' = NoErr
          /\ n # Null
          /\ ret'.node = n
          /\ nodes' = [nodes EXCEPT ![n].data = args'.data]
          /\ length' = length /\ head' = head /\ tail' = tail
          /\ ValueAt(StNext, i) = args'.data
          /\ \A j \in 0..(length - 1) :
                j # i => ValueAt(StNext, j) = ValueAt(St, j)]_vars

C10_Witness ==
    /\ op = "modify_node"
    /\ err = NoErr
    /\ args.index = 1
    /\ length >= 2
    /\ ret.node # head
    /\ nodes[ret.node].data = args.data
    /\ nodes[head].data # args.data

\* ------------------------------------------------------------------ C11
\* C11: remove_node(0) on a list of length 1 leaves head, tail and current
\* null and length 0.
C11_RemoveSole ==
    [][(op' = "remove_node" /\ args'.index = 0 /\ length = 1) =>
          /\ head' = Null
          /\ tail' = Null
          /\ current' = Null
          /\ length' = 0]_vars

\* ------------------------------------------------------------------ C12
\* C12: when current is the tail node, next_node() raises nothing and
\* leaves current (and the node it returns) at tail; when current is the
\* head node, previous_node() does the same at head; and no call of either
\* changes length, head, tail, a payload or a link.  One call leaving the
\* state as it was, any number of calls do.
C12_StepPastEnd ==
    [][/\ (op' = "next_node" /\ current # Null /\ current = tail) =>
             err' = NoErr /\ current' = tail /\ ret'.node = tail
       /\ (op' = "previous_node" /\ current # Null /\ current = head) =>
             err' = NoErr /\ current' = head /\ ret'.node = head
       /\ op' \in {"next_node", "previous_node"} =>
             /\ nodes' = nodes
             /\ length' = length
             /\ head' = head
             /\ tail' = tail]_vars

\* next_node() has returned on a list whose only node is head and tail: it
\* was called at the tail.
C12_Witness ==
    /\ op = "next_node"
    /\ err = NoErr
    /\ length = 1
    /\ Len(HeadChain) = 1
    /\ current = tail
    /\ current = head
    /\ ret.node = tail

\* ------------------------------------------------------------------ C13
\* C13: display_nodes returns without error for every list and request,
\* and prints exactly one line <<index, value>> per pair that
\* gather_node_data returns for the request, in that order, value being
\* the payload of the element at index.
C13_Display ==
    op = "display_nodes" =>
        LET g == gather_node_data(St, args.indexes, args.all_nodes) IN
        /\ pc = "idle"
        /\ err = NoErr
        /\ ~g.hung
        /\ Len(output) = Len(g.ret.list)
        /\ \A i \in 1..Len(output) :
              /\ output[i][1] = g.ret.list[i][1]
              /\ output[i][2] = ValueAt(St, output[i][1])

\* ------------------------------------------------------------------ C14
\* C14: gather_node_data returns for every list and every combination of
\* indexes and all_nodes.
C14_GatherTerminates ==
    op = "gather_node_data" => pc # "hung"

\* ------------------------------------------------------------------ C15
\* C15: remove_node corrects the endpoints: a removed node with no
\* predecessor hands head to its successor, one with no successor hands
\* tail to its predecessor; so the removed node is reachable neither from
\* head along next_node nor from tail along prev_node, and an insert_node
\* after the removal does not link it back in.  Stated of remove_node(i)
\* with i >= 0 that returned, with the node identities it was made with.
C15_RemoveEndpoints ==
    [][(op' = "remove_node" /\ args'.index >= 0 /\ err' = NoErr) =>
          LET n == set_current_index(St, args'.index).s.current
              r == remove_node(St, args'.index).s
          IN
          /\ nodes[n].prev_node = Null => r.head = nodes[n].next_node
          /\ nodes[n].next_node = Null => r.tail = nodes[n].prev_node
          /\ ~InSeq(ChainNext(r.nodes, r.head, <<>>), n)
          /\ ~InSeq(ChainPrev(r.nodes, r.tail, <<>>), n)
          /\ \A d \in Values, after \in BOOLEAN :
                LET q == insert_node(r, d, after, 0).s IN
                r.nalloc < MaxNodes =>
                   /\ ~InSeq(ChainNext(q.nodes, q.head, <<>>), n)
                   /\ ~InSeq(ChainPrev(q.nodes, q.tail, <<>>), n)]_vars

\* ------------------------------------------------------------------ C16
\* C16: length is non-negative in every reachable state.
C16_LengthNonNegative ==
    length >= 0

\* ------------------------------------------------------------------ C17
\* C17: previous_node() and next_node() called while current is null fail
\* with a LinkedListError, and current is null only on an empty list.  (A
\* step call never moves current from or to null, so current is null after
\* the call exactly when it was null before it.)
C17_StepOnNull ==
    (op \in {"previous_node", "next_node"} /\ current = Null) =>
        /\ err \in {ErrOutOfBounds, ErrInvalidNode, ErrNotFound}
        /\ length = 0

\* ------------------------------------------------------------------ C18
\* C18: set_current_index, insert_node, modify_node and remove_node called
\* with a negative index fail with the index-out-of-bounds LinkedListError.
C18_NegativeIndex ==
    (/\ op \in {"set_current_index", "insert_node", "modify_node",
                "remove_node"}
     /\ args.index < 0) => err = ErrOutOfBounds

\* ------------------------------------------------------------------ C19
\* C19: on an empty list (length 0) set_current_index(0) does not raise and
\* insert_node(v, after, 0) succeeds for either value of after, the new node
\* becoming head, tail and current with length 1; with any non-zero index
\* both raise a LinkedListError.
C19_EmptyListIndex ==
    [][(length = 0 /\ op' \in {"set_current_index", "insert_node"}) =>
          IF args'.index = 0
          THEN /\ err' = NoErr
               /\ op' = "insert_node" =>
                     /\ length' = 1
                     /\ head' # Null
                     /\ head' = tail'
                     /\ head' = current'
                     /\ ret'.node = head'
                     /\ nodes'[head'].data = args'.data
          ELSE err' \in {ErrOutOfBounds, ErrInvalidNode, ErrNotFound}]_vars

\* ------------------------------------------------------------------ C20
\* C20: insert_node, modify_node or remove_node called with an index that
\* set_current_index rejects (index # 0 and index > length-1) raises the
\* index-out-of-bounds LinkedListError and leaves head, tail, current,
\* length, every payload and every link as they were.
C20_RejectedIndex ==
    [][(/\ op' \in {"insert_node", "modify_node", "remove_node"}
        /\ args'.index # 0
        /\ args'.index > length - 1) =>
          /\ err' = ErrOutOfBounds
          /\ nodes' = nodes
          /\ head' = head
          /\ tail' = tail
          /\ current' = current
          /\ length' = length]_vars

\* A rejected insert_node on a list whose current is not at head.
C20_Witness ==
    /\ op = "insert_node"
    /\ err = ErrOutOfBounds
    /\ args.index > length - 1
    /\ length >= 2
    /\ current # Null
    /\ current # head
====
